---- MODULE Spec2Model ----
(***************************************************************************)
(* Model of tester_testat.py: the conformance grader run_all_tests/main    *)
(* driven against a candidate module.  The harness is modelled statement   *)
(* by statement; the candidate (the code under test, which is an input of  *)
(* the grader) is a reference implementation of the Storage/BOM contract   *)
(* carrying at most MaxDefects deviations.                                 *)
(***************************************************************************)
EXTENDS Integers, Sequences, FiniteSets, TLC

VARIABLES
    pc,                 \* position inside run_all_tests / main
    cand,               \* the candidate's behaviour: field -> flavour
    module,             \* which top-level names the candidate module defines
    flake8,             \* what running the external linter does
    storage_available,  \* run_all_tests local
    bom_available,      \* run_all_tests local
    results,            \* run_all_tests local: sequence of <<label, earned, max>>
    temp_dir,           \* "none" | "exists" | "removed"
    files,              \* content of the temporary directory: name -> lines
    s,                  \* the shared Storage instance (NoInstance before test_init)
    b,                  \* the BOM instance returned by test_bom_init
    exc,                \* exception in flight in run_all_tests ("none" if none)
    ran,                \* log of scenario invocations: <<name, id of the Storage used>>
    made,               \* number of Storage instances constructed so far
    bom_made,           \* number of BOM constructor calls so far
    report              \* main's locals: total_score, max_score, verdict

vars == <<pc, cand, module, flake8, storage_available, bom_available, results,
          temp_dir, files, s, b, exc, ran, made, bom_made, report>>

(***************************************************************************)
(* Bounds.                                                                 *)
(***************************************************************************)
\* a candidate deviates from the reference contract in at most this many fields
MaxDefects == 2
\* integers that int(...) can read back from a stored count string
MaxCount == 150

(***************************************************************************)
(* Python values.  A value is a tagged tuple, so that 25 and "25" differ   *)
(* and str() is a real conversion.                                         *)
(***************************************************************************)
I(n) == <<"int", n>>
S(x) == <<"str", x>>
F(x) == <<"float", x>>          \* a float literal, kept as its repr
None == <<"None">>
Bool(x) == <<"bool", x>>
IsNone(v) == v[1] = "None"

Str(v) == IF v[1] = "int" THEN <<"str", ToString(v[2])>> ELSE <<"str", v[2]>>

IntOf(v) ==
    IF v[1] = "int" THEN v[2]
    ELSE CHOOSE n \in (0 - MaxCount)..MaxCount : ToString(n) = v[2]

PyEq(x, y) == x[1] = y[1] /\ x[2] = y[2]

StrAll(attrs) == [k \in DOMAIN attrs |-> Str(attrs[k])]

\* the outcome of one candidate call: exception kind (or "none"), return
\* value, and the instance after the call
Ok(ret, inst) == [exc |-> "none", ret |-> ret, s |-> inst]
Raise(kind, inst) == [exc |-> kind, ret |-> None, s |-> inst]

\* `except KeyError` / `except Exception`
IsKeyError(kind) == kind = "KeyError"

(***************************************************************************)
(* The candidate.                                                          *)
(***************************************************************************)
StorageMethods == <<"__init__", "create", "update", "search", "take", "add">>
BomMethods == <<"__init__", "availability">>

DocField(cls, name) == "doc." \o cls \o "." \o name

Range(q) == {q[i] : i \in DOMAIN q}

DocFields ==
    {DocField("Storage", m) : m \in Range(StorageMethods)}
        \cup {DocField("BOM", m) : m \in Range(BomMethods)}

BehaviourFields ==
    {"init", "create", "updMerge", "updUnknown", "search", "take", "add",
     "bomInit", "avail"}

Fields == BehaviourFields \cup DocFields

\* the ways a field can deviate from the reference ("ref")
Deviations(f) ==
    CASE f = "init" -> {"raises", "no_data", "no_path"}
      [] f = "create" -> {"raises", "no_coerce"}
      [] f = "updMerge" -> {"keep_count", "raises"}
      [] f = "updUnknown" -> {"silent", "ValueError"}
      [] f = "search" -> {"raises", "empty_nomatch"}
      [] f = "take" -> {"raises", "silent_unknown"}
      [] f = "add" -> {"raises", "creates_unknown"}
      [] f = "bomInit" -> {"raises", "no_group", "falsy"}
      [] f = "avail" -> {"raises", "no_text"}
      [] OTHER -> {"undoc", "missing"}

AllDeviations == UNION {Deviations(f) : f \in Fields}

Candidates ==
    UNION {
        { [f \in Fields |-> IF f \in D THEN g[f] ELSE "ref"] :
            g \in {h \in [D -> AllDeviations] :
                     \A f \in D : h[f] \in Deviations(f)} } :
        D \in {E \in SUBSET Fields : Cardinality(E) <= MaxDefects} }

Defects(c) == {f \in Fields : c[f] # "ref"}

\* how the candidate treats a required method: "doc" (defined with a
\* docstring, the reference), "undoc" (defined without one) or "missing"
DocStatus(c, cls, name) ==
    IF c[DocField(cls, name)] = "ref" THEN "doc" ELSE c[DocField(cls, name)]

(***************************************************************************)
(* Candidate Storage.  An instance is [id, hasData, hasPath, data]; data   *)
(* maps part numbers to records (attribute name -> Python value).          *)
(***************************************************************************)
NoInstance == [id |-> 0, hasData |-> FALSE, hasPath |-> FALSE, data |-> <<>>]

\* a fixture line "key = value" or "key=value": <<key, separator, value>>
ParseLines(lines) ==
    [k \in {lines[i][1] : i \in DOMAIN lines} |->
        S((CHOOSE l \in Range(lines) : l[1] = k)[3])]

TxtFiles(dir) == {n \in DOMAIN dir : dir[n].ext = "txt"}

\* Storage(path)
StorageInit(c, dir, id) ==
    IF c["init"] = "raises" THEN Raise("RuntimeError", NoInstance)
    ELSE Ok(None,
            [id |-> id,
             hasData |-> c["init"] # "no_data",
             hasPath |-> c["init"] # "no_path",
             data |-> [pn \in {dir[n].stem : n \in TxtFiles(dir)} |->
                         ParseLines(dir[CHOOSE n \in TxtFiles(dir) :
                                            dir[n].stem = pn].lines)]])

Put(inst, pn, rec) ==
    [inst EXCEPT !.data =
        [k \in DOMAIN inst.data \cup {pn} |-> IF k = pn THEN rec ELSE inst.data[k]]]

\* create(part_number, attributes, overwrite=False)
Create(c, inst, pn, attrs, overwrite) ==
    IF c["create"] = "raises" THEN Raise("RuntimeError", inst)
    ELSE IF pn \in DOMAIN inst.data /\ ~overwrite THEN Ok(Bool(FALSE), inst)
    ELSE Ok(Bool(TRUE),
            Put(inst, pn, IF c["create"] = "no_coerce" THEN attrs ELSE StrAll(attrs)))

Merge(rec, attrs) ==
    [k \in DOMAIN rec \cup DOMAIN attrs |->
        IF k \in DOMAIN attrs THEN Str(attrs[k]) ELSE rec[k]]

Without(attrs, key) == [k \in DOMAIN attrs \ {key} |-> attrs[k]]

\* update(part_number, attributes)
Update(c, inst, pn, attrs) ==
    IF c["updMerge"] = "raises" THEN Raise("RuntimeError", inst)
    ELSE IF pn \notin DOMAIN inst.data
    THEN CASE c["updUnknown"] = "ref" -> Raise("KeyError", inst)
           [] c["updUnknown"] = "ValueError" -> Raise("ValueError", inst)
           [] OTHER -> Ok(None, inst)
    ELSE Ok(None,
            Put(inst, pn,
                Merge(inst.data[pn],
                      IF c["updMerge"] = "keep_count"
                      THEN Without(attrs, "count") ELSE attrs)))

Matches(rec, attrs) ==
    \A k \in DOMAIN attrs : k \in DOMAIN rec /\ PyEq(rec[k], Str(attrs[k]))

\* search(part_number=None, attributes=None); an absent argument is None
Search(c, inst, pn, attrs) ==
    IF c["search"] = "raises" THEN Raise("RuntimeError", inst)
    ELSE IF ~IsNone(pn)
    THEN IF pn[2] \in DOMAIN inst.data
            /\ (IsNone(attrs) \/ Matches(inst.data[pn[2]], attrs[2]))
         THEN Ok(<<"dict", inst.data[pn[2]]>>, inst)
         ELSE Ok(None, inst)
    ELSE IF ~IsNone(attrs)
    THEN LET hit == {k \in DOMAIN inst.data : Matches(inst.data[k], attrs[2])}
         IN  IF hit = {} /\ c["search"] # "empty_nomatch"
             THEN Ok(None, inst)
             ELSE Ok(<<"dict", [k \in hit |-> inst.data[k]]>>, inst)
    ELSE Ok(<<"dict", inst.data>>, inst)

Count(inst, pn) == IntOf(inst.data[pn]["count"])

\* take(requests): every known part is decremented; the result names the
\* requests that could not be satisfied
Take(c, inst, req) ==
    IF c["take"] = "raises" THEN Raise("RuntimeError", inst)
    ELSE LET known == DOMAIN req \cap DOMAIN inst.data
             after == [inst EXCEPT !.data =
                         [k \in DOMAIN inst.data |->
                            IF k \in known
                            THEN [inst.data[k] EXCEPT
                                    !["count"] = S(ToString(Count(inst, k) - req[k]))]
                            ELSE inst.data[k]]]
             short == {k \in known : Count(inst, k) - req[k] < 0}
                        \cup (IF c["take"] = "silent_unknown" THEN {}
                              ELSE DOMAIN req \ known)
         IN  IF short = {} THEN Ok(None, after)
             ELSE Ok(<<"dict", [k \in short |->
                                  IF k \in known THEN Count(inst, k) - req[k]
                                  ELSE 0 - req[k]]>>, after)

\* add(requests): every known part is incremented; the result names the
\* unknown parts
Add(c, inst, req) ==
    IF c["add"] = "raises" THEN Raise("RuntimeError", inst)
    ELSE LET known == DOMAIN req \cap DOMAIN inst.data
             unknown == DOMAIN req \ known
             bumped == [inst EXCEPT !.data =
                          [k \in DOMAIN inst.data |->
                             IF k \in known
                             THEN [inst.data[k] EXCEPT
                                     !["count"] = S(ToString(Count(inst, k) + req[k]))]
                             ELSE inst.data[k]]]
             after == IF c["add"] = "creates_unknown"
                      THEN [bumped EXCEPT !.data =
                              [k \in DOMAIN bumped.data \cup unknown |->
                                 IF k \in unknown
                                 THEN [a \in {"count"} |-> S(ToString(req[k]))]
                                 ELSE bumped.data[k]]]
                      ELSE bumped
         IN  IF unknown = {} \/ c["add"] = "creates_unknown" THEN Ok(None, after)
             ELSE Ok(<<"dict", [k \in unknown |-> req[k]]>>, after)

(***************************************************************************)
(* Candidate BOM.  An instance is [none, truthy, parts]; parts maps part numbers *)
(* to the list of references that use them.                                *)
(***************************************************************************)
NoBom == [none |-> TRUE, truthy |-> FALSE, parts |-> <<>>]

RefsOf(rows, pn) ==
    LET idx == {i \in DOMAIN rows : rows[i].part = pn}
        acc[n \in 0..Len(rows)] ==
            IF n = 0 THEN <<>>
            ELSE IF n \in idx THEN Append(acc[n - 1], rows[n].ref) ELSE acc[n - 1]
    IN  acc[Len(rows)]

\* BOM(csv_path)
BomInit(c, rows) ==
    IF c["bomInit"] = "raises" THEN Raise("RuntimeError", NoBom)
    ELSE Ok(None,
            [none |-> FALSE,
             truthy |-> c["bomInit"] # "falsy",
             parts |-> [pn \in {rows[i].part : i \in DOMAIN rows} |->
                          IF c["bomInit"] = "no_group"
                          THEN <<rows[CHOOSE i \in DOMAIN rows : rows[i].part = pn
                                    /\ \A j \in DOMAIN rows :
                                          rows[j].part = pn => j <= i].ref>>
                          ELSE RefsOf(rows, pn)]])

\* availability(storage, units, output_text=False): the parts of the bill
\* that the storage cannot supply; with output_text, also the text table
Availability(c, bom, storage, units, output_text) ==
    IF c["avail"] = "raises" THEN Raise("RuntimeError", storage)
    ELSE IF ~storage.hasData THEN Raise("AttributeError", storage)
    ELSE LET short == {pn \in DOMAIN bom.parts :
                         \/ pn \notin DOMAIN storage.data
                         \/ Count(storage, pn) < units * Len(bom.parts[pn])}
             result == <<"dict", [pn \in short |->
                                    IF pn \in DOMAIN storage.data
                                    THEN "short" ELSE "missing"]>>
         IN  IF ~output_text THEN Ok(result, storage)
             ELSE Ok(<<"tuple", result,
                       IF c["avail"] = "no_text" THEN None
                       ELSE S("Part Number")>>, storage)

(***************************************************************************)
(* The harness: audits.                                                    *)
(***************************************************************************)
\* getattr(cls, name, None) followed by inspect.getdoc(method): a class that
\* does not define or document __init__ still resolves it, with a docstring,
\* through object (and None.__init__ through NoneType); any other name is
\* found, and documented, only if the candidate does so itself
Documented(c, cls, present, name) ==
    LET own == IF present THEN DocStatus(c, cls, name) ELSE "missing"
        method == own # "missing" \/ name = "__init__"
        getdoc == own = "doc" \/ name = "__init__"
    IN  method /\ getdoc

check_docstring(c, storage_cls, bom_cls) ==
    LET storage_total ==
            Cardinality({i \in DOMAIN StorageMethods :
                           Documented(c, "Storage", storage_cls, StorageMethods[i])})
        bom_total ==
            IF bom_cls
            THEN Cardinality({i \in DOMAIN BomMethods :
                                Documented(c, "BOM", TRUE, BomMethods[i])})
            ELSE 0
        required == Len(StorageMethods) + (IF bom_cls THEN Len(BomMethods) ELSE 0)
    IN  IF storage_total + bom_total = required THEN 1 ELSE 0

check_pep8(linter) ==
    CASE linter = "clean" -> 2
      [] linter = "violations" -> 0
      [] OTHER -> 0               \* FileNotFoundError: flake8 not installed

(***************************************************************************)
(* The harness: fixtures.                                                  *)
(***************************************************************************)
InitFile1 ==
    [stem |-> "INITTEST-001", ext |-> "txt",
     lines |-> << <<"count", " = ", "100">>,
                  <<"description", "=", "Chip Resistor">> >>]

InitFile2 ==
    [stem |-> "INITTEST-002", ext |-> "txt",
     lines |-> << <<"count", "=", "20">>,
                  <<"value", " = ", "TPS73033">>,
                  <<"package", "=", "SOT-23-5">> >>]

Row(ref, part) == [ref |-> ref, part |-> part]

create_sample_bom_csv ==
    [stem |-> "stueckliste", ext |-> "csv",
     lines |-> << Row("C1", "BOMTEST-001"), Row("C2", "BOMTEST-002"),
                  Row("C3", "BOMTEST-003"), Row("C4", "BOMTEST-003"),
                  Row("C5", "BOMTEST-003"), Row("C6", "BOMTEST-003"),
                  Row("U4", "BOMTEST-004") >>]

WriteFile(dir, name, content) ==
    [n \in DOMAIN dir \cup {name} |-> IF n = name THEN content ELSE dir[n]]

(***************************************************************************)
(* The harness: scenarios.  Each returns the points earned and the shared  *)
(* instance as the candidate left it.                                      *)
(***************************************************************************)
Truthy(v) ==
    CASE v[1] = "None" -> FALSE
      [] v[1] = "bool" -> v[2]
      [] v[1] = "int" -> v[2] # 0
      [] v[1] = "str" -> v[2] # ""
      [] v[1] = "dict" -> DOMAIN v[2] # {}
      [] OTHER -> TRUE

Scored(pts, inst) == [pts |-> pts, s |-> inst]

\* data.get(pn, {}).get(key)
GetGet(data, pn, key) ==
    IF pn \in DOMAIN data /\ key \in DOMAIN data[pn] THEN data[pn][key] ELSE None

\* test_init has no try/except: an exception of the candidate leaves it
test_init(c, dir, id) ==
    LET made_s == StorageInit(c, dir, id)
    IN  IF made_s.exc # "none" THEN [exc |-> made_s.exc, pts |-> 0, s |-> NoInstance]
        ELSE IF ~made_s.s.hasData
        THEN [exc |-> "AttributeError", pts |-> 0, s |-> NoInstance]
        ELSE LET data == made_s.s.data
             IN  IF /\ PyEq(GetGet(data, "INITTEST-001", "count"), S("100"))
                    /\ PyEq(GetGet(data, "INITTEST-002", "value"), S("TPS73033"))
                    /\ made_s.s.hasPath
                 THEN [exc |-> "none", pts |-> 3, s |-> made_s.s]
                 ELSE [exc |-> "none", pts |-> 0, s |-> made_s.s]

CreateAttrs1 == ("count" :> I(25)) @@ ("value" :> S("green")) @@ ("price" :> F("0.18"))
CreateAttrs2 == ("count" :> I(100))

test_create(c, inst) ==
    LET pn == "CREATETEST-001"
        r1 == Create(c, inst, pn, CreateAttrs1, FALSE)
        r2 == Create(c, r1.s, pn, CreateAttrs2, FALSE)
        r3 == Create(c, r2.s, pn, CreateAttrs2, TRUE)
    IN  IF r1.exc # "none" THEN Scored(0, r1.s)
        ELSE IF ~Truthy(r1.ret) THEN Scored(0, r1.s)
        ELSE IF \/ pn \notin DOMAIN r1.s.data
                \/ ~PyEq(r1.s.data[pn]["count"], S("25"))
                \/ ~PyEq(r1.s.data[pn]["value"], S("green"))
        THEN Scored(0, r1.s)
        ELSE IF r2.exc # "none" THEN Scored(0, r2.s)
        ELSE IF ~PyEq(r2.ret, Bool(FALSE)) THEN Scored(0, r2.s)
        ELSE IF r3.exc # "none" THEN Scored(0, r3.s)
        ELSE IF ~Truthy(r3.ret) \/ ~PyEq(r3.s.data[pn]["count"], S("100"))
        THEN Scored(0, r3.s)
        ELSE Scored(3, r3.s)

UpdateSeed == ("count" :> I(20)) @@ ("price" :> F("0.81"))
UpdatePayload == ("package" :> S("SOT-23-5")) @@ ("count" :> I(999))
UpdateExpectedCount == S("20")

\* as UpdateUnknownPoints, with `except Exception` around the unknown-key call
UpdateUnknownPoints_anyError(kind) == IF kind = "none" THEN 0 ELSE 3

\* try: s.update("XYZ_NOT_EXIST", ...); return 0 / except KeyError: return 3,
\* inside the outer except Exception: return 0
UpdateUnknownPoints(kind) ==
    IF kind = "none" THEN 0
    ELSE IF IsKeyError(kind) THEN 3
    ELSE 0

test_update(c, inst) ==
    LET pn == "UPDATETEST-001"
        r1 == Create(c, inst, pn, UpdateSeed, FALSE)
        r2 == Update(c, r1.s, pn, UpdatePayload)
        r3 == Update(c, r2.s, "XYZ_NOT_EXIST", ("value" :> S("fail")))
    IN  IF r1.exc # "none" THEN Scored(0, r1.s)
        ELSE IF r2.exc # "none" THEN Scored(0, r2.s)
        ELSE IF pn \notin DOMAIN r2.s.data THEN Scored(0, r2.s)     \* KeyError
        ELSE IF \/ ~PyEq(r2.s.data[pn]["package"], S("SOT-23-5"))
                \/ ~PyEq(r2.s.data[pn]["count"], UpdateExpectedCount)
        THEN Scored(0, r2.s)
        ELSE Scored(UpdateUnknownPoints(r3.exc), r3.s)

SearchSeed ==
    ("count" :> I(20)) @@ ("price" :> F("0.1")) @@ ("package" :> S("SOT-23-5"))

test_search(c, inst) ==
    LET pn == "SEARCHTEST-001"
        byPackage == <<"dict", ("package" :> S("SOT-23-5"))>>
        r1 == Create(c, inst, pn, SearchSeed, FALSE)
        exact == Search(c, r1.s, S(pn), None)
        attr == Search(c, exact.s, None, byPackage)
        all_parts == Search(c, attr.s, None, None)
        none_match == Search(c, all_parts.s, None, <<"dict", ("value" :> S("XXX"))>>)
        combined == Search(c, none_match.s, S(pn), byPackage)
    IN  IF r1.exc # "none" THEN Scored(0, r1.s)
        ELSE IF exact.exc # "none" THEN Scored(0, exact.s)
        ELSE IF ~Truthy(exact.ret) THEN Scored(0, exact.s)
        ELSE IF "package" \notin DOMAIN exact.ret[2] THEN Scored(0, exact.s)
        ELSE IF ~PyEq(exact.ret[2]["package"], S("SOT-23-5")) THEN Scored(0, exact.s)
        ELSE IF attr.exc # "none" THEN Scored(0, attr.s)
        ELSE IF IsNone(attr.ret) THEN Scored(0, attr.s)              \* TypeError
        ELSE IF pn \notin DOMAIN attr.ret[2] THEN Scored(0, attr.s)
        ELSE IF all_parts.exc # "none" THEN Scored(0, all_parts.s)
        ELSE IF IsNone(all_parts.ret) THEN Scored(0, all_parts.s)    \* TypeError
        ELSE IF Cardinality(DOMAIN all_parts.ret[2]) < 1 THEN Scored(0, all_parts.s)
        ELSE IF none_match.exc # "none" THEN Scored(0, none_match.s)
        ELSE IF ~IsNone(none_match.ret) THEN Scored(0, none_match.s)
        ELSE IF combined.exc # "none" THEN Scored(0, combined.s)
        ELSE IF IsNone(combined.ret) \/ combined.ret[2] # exact.ret[2]
        THEN Scored(0, combined.s)
        ELSE Scored(3, combined.s)

TakeSeed1 == ("count" :> I(100))
TakeSeed2 == ("count" :> I(20))
TakeRequest1 == ("TAKETEST-002" :> 5) @@ ("TAKETEST-001" :> 2)
TakeRequest2 == ("TAKETEST-002" :> 50) @@ ("TAKETEST-001" :> 2)
TakeRequest3 == ("TAKETEST-NOT_EXIST" :> 5)
\* as TakeExpected2, with the shortfall computed from the seeded count (20 - 50)
TakeExpected2_fromSeed == ("TAKETEST-002" :> (0 - 30))
TakeExpected2 == ("TAKETEST-002" :> (0 - 35))
TakeExpected3 == ("TAKETEST-NOT_EXIST" :> (0 - 5))

\* result != {...} for a result that is None or a dict
DictIs(ret, expected) == ~IsNone(ret) /\ ret[2] = expected

test_take(c, inst) ==
    LET r1 == Create(c, inst, "TAKETEST-001", TakeSeed1, FALSE)
        r2 == Create(c, r1.s, "TAKETEST-002", TakeSeed2, FALSE)
        result == Take(c, r2.s, TakeRequest1)
        result2 == Take(c, result.s, TakeRequest2)
        result3 == Take(c, result2.s, TakeRequest3)
    IN  IF r1.exc # "none" THEN Scored(0, r1.s)
        ELSE IF r2.exc # "none" THEN Scored(0, r2.s)
        ELSE IF result.exc # "none" THEN Scored(0, result.s)
        ELSE IF ~IsNone(result.ret) THEN Scored(0, result.s)
        ELSE IF result2.exc # "none" THEN Scored(0, result2.s)
        ELSE IF ~DictIs(result2.ret, TakeExpected2) THEN Scored(0, result2.s)
        ELSE IF result3.exc # "none" THEN Scored(0, result3.s)
        ELSE IF ~DictIs(result3.ret, TakeExpected3) THEN Scored(0, result3.s)
        ELSE Scored(2, result3.s)

AddSeed == ("count" :> I(100))
AddRequest1 == ("ADDTEST-001" :> 30)
AddRequest2 == ("UNKNOWN-A" :> 10) @@ ("UNKNOWN-B" :> 15)
AddRequest3 == ("ADDTEST-001" :> 5) @@ ("UNKNOWN-A" :> 10)
AddRequest4 == ("ADDTEST-001" :> 0)
AddExpected3 == ("UNKNOWN-A" :> 10)
AddExpectedCount1 == S("130")
AddExpectedCount4 == S("135")

test_add(c, inst) ==
    LET pn == "ADDTEST-001"
        r1 == Create(c, inst, pn, AddSeed, FALSE)
        result1 == Add(c, r1.s, AddRequest1)
        result2 == Add(c, result1.s, AddRequest2)
        result3 == Add(c, result2.s, AddRequest3)
        result4 == Add(c, result3.s, AddRequest4)
    IN  IF r1.exc # "none" THEN Scored(0, r1.s)
        ELSE IF result1.exc # "none" THEN Scored(0, result1.s)
        ELSE IF ~IsNone(result1.ret)
                \/ ~PyEq(result1.s.data[pn]["count"], AddExpectedCount1)
        THEN Scored(0, result1.s)
        ELSE IF result2.exc # "none" THEN Scored(0, result2.s)
        ELSE IF ~DictIs(result2.ret, AddRequest2) THEN Scored(0, result2.s)
        ELSE IF result3.exc # "none" THEN Scored(0, result3.s)
        ELSE IF ~DictIs(result3.ret, AddExpected3) THEN Scored(0, result3.s)
        ELSE IF result4.exc # "none" THEN Scored(0, result4.s)
        ELSE IF ~IsNone(result4.ret)
                \/ ~PyEq(result4.s.data[pn]["count"], AddExpectedCount4)
        THEN Scored(0, result4.s)
        ELSE Scored(2, result4.s)

\* sorted(parts[pn]["reference"]) == [...], the expected list holding no
\* element twice: same length and same elements
SortedIs(refs, expected) == Len(refs) = Len(expected) /\ Range(refs) = Range(expected)

BomExpectedRefs == <<"C3", "C4", "C5", "C6">>

test_bom_init(c, csv) ==
    LET made_b == BomInit(c, csv.lines)
    IN  IF made_b.exc # "none" THEN [b |-> NoBom, pts |-> 0]
        ELSE IF /\ "BOMTEST-003" \in DOMAIN made_b.s.parts
                /\ SortedIs(made_b.s.parts["BOMTEST-003"], BomExpectedRefs)
        THEN [b |-> made_b.s, pts |-> 2]
        ELSE [b |-> NoBom, pts |-> 0]

test_bom_availability(c, bom, dir, id) ==
    LET made_s == StorageInit(c, dir, id)
        result == Availability(c, bom, made_s.s, 0, FALSE)
        both == Availability(c, bom, result.s, 0, TRUE)
    IN  IF made_s.exc # "none" THEN 0
        ELSE IF result.exc # "none" THEN 0
        ELSE IF "BOMTEST-004" \notin DOMAIN result.ret[2] THEN 0
        ELSE IF both.exc # "none" THEN 0
        ELSE IF both.ret[3][1] # "str" THEN 0
        ELSE IF both.ret[3][2] # "Part Number" THEN 0
        ELSE 3

(***************************************************************************)
(* run_all_tests, one action per statement group, and main.                *)
(***************************************************************************)
L_doc == "T201 - Docstrings"
L_pep8 == "T202 - PEP8"
L_init == "T411-T414 - __init__"
L_create == "T421-T424 - create()"
L_update == "T431-T434 - update()"
L_search == "T441-T444 - search()"
L_take == "T451-T454 - take()"
L_add == "T461-T463 - add()"
L_bom_init == "T511-T515 - BOM.__init__"
L_bom_avail == "T521-T524 - BOM.availability"

Linters == {"clean", "violations", "not_installed"}

Init ==
    /\ pc = "load"
    /\ cand \in Candidates
    /\ module \in [Storage : BOOLEAN, BOM : BOOLEAN]
    /\ flake8 \in Linters
    /\ storage_available = FALSE
    /\ bom_available = FALSE
    /\ results = <<>>
    /\ temp_dir = "none"
    /\ files = <<>>
    /\ s = NoInstance
    /\ b = NoBom
    /\ exc = "none"
    /\ ran = <<>>
    /\ made = 0
    /\ bom_made = 0
    /\ report = [total_score |-> 0, max_score |-> 0, verdict |-> "none"]

\* load_class twice; an AttributeError becomes a cleared availability flag
Load ==
    /\ pc = "load"
    /\ storage_available' = module.Storage
    /\ bom_available' = module.BOM
    /\ pc' = "docstrings"
    /\ UNCHANGED <<cand, module, flake8, results, temp_dir, files, s, b, exc, ran,
                   made, bom_made, report>>

Docstrings ==
    /\ pc = "docstrings"
    /\ results' = Append(results,
                         <<L_doc, check_docstring(cand, storage_available, bom_available), 1>>)
    /\ pc' = "pep8"
    /\ UNCHANGED <<cand, module, flake8, storage_available, bom_available, temp_dir,
                   files, s, b, exc, ran, made, bom_made, report>>

Pep8 ==
    /\ pc = "pep8"
    /\ results' = Append(results, <<L_pep8, check_pep8(flake8), 2>>)
    /\ pc' = "mkdtemp"
    /\ UNCHANGED <<cand, module, flake8, storage_available, bom_available, temp_dir,
                   files, s, b, exc, ran, made, bom_made, report>>

MkTemp ==
    /\ pc = "mkdtemp"
    /\ temp_dir' = "exists"
    /\ files' = <<>>
    /\ pc' = "storage"
    /\ UNCHANGED <<cand, module, flake8, storage_available, bom_available, results,
                   s, b, exc, ran, made, bom_made, report>>

\* s, pts = test_init(Storage, temp_dir); an exception goes to the finally
TestInit ==
    /\ pc = "storage"
    /\ storage_available
    /\ LET dir == WriteFile(WriteFile(files, "INITTEST-001.txt", InitFile1),
                            "INITTEST-002.txt", InitFile2)
           r == test_init(cand, dir, made + 1)
       IN  /\ files' = dir
           /\ made' = made + 1
           /\ ran' = Append(ran, <<"test_init", r.s.id>>)
           /\ IF r.exc # "none"
              THEN /\ exc' = r.exc
                   /\ pc' = "finally"
                   /\ UNCHANGED <<results, s>>
              ELSE /\ s' = r.s
                   /\ results' = Append(results, <<L_init, r.pts, 3>>)
                   /\ pc' = "create"
                   /\ UNCHANGED exc
    /\ UNCHANGED <<cand, module, flake8, storage_available, bom_available, temp_dir,
                   b, bom_made, report>>

\* one try-protected scenario on the shared instance
Scenario(at, name, label, r, max, next) ==
    /\ pc = at
    /\ ran' = Append(ran, <<name, s.id>>)
    /\ s' = r.s
    /\ results' = Append(results, <<label, r.pts, max>>)
    /\ pc' = next
    /\ UNCHANGED <<cand, module, flake8, storage_available, bom_available, temp_dir,
                   files, b, exc, made, bom_made, report>>

TestCreate == Scenario("create", "test_create", L_create, test_create(cand, s), 3, "update")

TestUpdate == Scenario("update", "test_update", L_update, test_update(cand, s), 3, "search")

\* as TestSearch, on a Storage built for this scenario alone
TestSearch_freshInstance ==
    Scenario("search", "test_search", L_search,
             test_search(cand, StorageInit(cand, files, made + 1).s), 3, "take")

TestSearch == Scenario("search", "test_search", L_search, test_search(cand, s), 3, "take")

TestTake == Scenario("take", "test_take", L_take, test_take(cand, s), 2, "add")

TestAdd == Scenario("add", "test_add", L_add, test_add(cand, s), 2, "bom")

StorageAbsent ==
    /\ pc = "storage"
    /\ ~storage_available
    /\ results' = results \o << <<L_init, 0, 3>>, <<L_create, 0, 3>>, <<L_update, 0, 3>>,
                               <<L_search, 0, 3>>, <<L_take, 0, 2>>, <<L_add, 0, 2>> >>
    /\ pc' = "bom"
    /\ UNCHANGED <<cand, module, flake8, storage_available, bom_available, temp_dir,
                   files, s, b, exc, ran, made, bom_made, report>>

\* as BomGate, without the test of storage_available
BomGate_bomOnly == bom_available

BomGate == bom_available /\ storage_available

TestBomInit ==
    /\ pc = "bom"
    /\ BomGate
    /\ LET csv == create_sample_bom_csv
           r == test_bom_init(cand, csv)
       IN  /\ files' = WriteFile(files, "stueckliste.csv", csv)
           /\ bom_made' = bom_made + 1
           /\ ran' = Append(ran, <<"test_bom_init", 0>>)
           /\ b' = r.b
           /\ results' = Append(results, <<L_bom_init, r.pts, 2>>)
    /\ pc' = "bom_avail"
    /\ UNCHANGED <<cand, module, flake8, storage_available, bom_available, temp_dir,
                   s, exc, made, report>>

\* `if b`: None and an instance that tests false both skip the scenario
BomTruthy(bom) == ~bom.none /\ bom.truthy

TestBomAvailability ==
    /\ pc = "bom_avail"
    /\ IF BomTruthy(b)
       THEN /\ results' = Append(results,
                  <<L_bom_avail, test_bom_availability(cand, b, files, made + 1), 3>>)
            /\ made' = made + 1
            /\ ran' = Append(ran, <<"test_bom_availability", made + 1>>)
       ELSE /\ results' = Append(results, <<L_bom_avail, 0, 3>>)
            /\ UNCHANGED <<made, ran>>
    /\ pc' = "finally"
    /\ UNCHANGED <<cand, module, flake8, storage_available, bom_available, temp_dir,
                   files, s, b, exc, bom_made, report>>

BomAbsent ==
    /\ pc = "bom"
    /\ ~BomGate
    /\ results' = results \o << <<L_bom_init, 0, 2>>, <<L_bom_avail, 0, 3>> >>
    /\ pc' = "finally"
    /\ UNCHANGED <<cand, module, flake8, storage_available, bom_available, temp_dir,
                   files, s, b, exc, ran, made, bom_made, report>>

\* as Finally, with the rmtree placed after the try block instead of in a
\* finally clause: an exception in flight skips it
Finally_afterTry ==
    /\ pc = "finally"
    /\ temp_dir' = IF exc = "none" THEN "removed" ELSE temp_dir
    /\ files' = IF exc = "none" THEN <<>> ELSE files
    /\ pc' = IF exc = "none" THEN "returned" ELSE "raised"
    /\ UNCHANGED <<cand, module, flake8, storage_available, bom_available, results,
                   s, b, exc, ran, made, bom_made, report>>

\* finally: shutil.rmtree(temp_dir), then return results or re-raise
Finally ==
    /\ pc = "finally"
    /\ temp_dir' = "removed"
    /\ files' = <<>>
    /\ pc' = IF exc = "none" THEN "returned" ELSE "raised"
    /\ UNCHANGED <<cand, module, flake8, storage_available, bom_available, results,
                   s, b, exc, ran, made, bom_made, report>>

RECURSIVE SumOf(_, _)
SumOf(rs, col) == IF rs = <<>> THEN 0 ELSE Head(rs)[col] + SumOf(Tail(rs), col)

\* as Passed, with the boundary excluded and the cutoff at half of the maximum
Passed_half(total_score, max_score) == 10 * total_score > 5 * max_score

\* total_score >= max_score * 0.4, in tenths.  The double 0.4 is within 2^-54
\* of 2/5, so for integer scores the float comparison differs from this one
\* at most where 2 * max_score is a multiple of 5; max_score is 24 in every
\* run (24 * 0.4 evaluates to 9.600000000000001)
Passed(total_score, max_score) == 10 * total_score >= 4 * max_score

Main ==
    /\ pc = "returned"
    /\ LET total_score == SumOf(results, 2)
           max_score == SumOf(results, 3)
       IN  report' = [total_score |-> total_score,
                      max_score |-> max_score,
                      verdict |-> IF Passed(total_score, max_score)
                                  THEN "passed" ELSE "failed"]
    /\ pc' = "done"
    /\ UNCHANGED <<cand, module, flake8, storage_available, bom_available, results,
                   temp_dir, files, s, b, exc, ran, made, bom_made>>

Next ==
    \/ Load \/ Docstrings \/ Pep8 \/ MkTemp
    \/ TestInit \/ TestCreate \/ TestUpdate \/ TestSearch \/ TestTake \/ TestAdd
    \/ StorageAbsent
    \/ TestBomInit \/ TestBomAvailability \/ BomAbsent
    \/ Finally \/ Main

Spec == Init /\ [][Next]_vars

(***************************************************************************)
(* Properties.                                                             *)
(***************************************************************************)
Returned == pc \in {"returned", "done"}
Left == pc \in {"returned", "done", "raised"}
Earned(i) == results[i][2]
Names(log) == [i \in DOMAIN log |-> log[i][1]]
Invoked(name) == name \in Range(Names(ran))

\* the result entry that a behaviour field's scenario fills
EntryOf(f) ==
    CASE f = "init" -> 3 [] f = "create" -> 4 [] f = "updMerge" -> 5
      [] f = "updUnknown" -> 5 [] f = "search" -> 6 [] f = "take" -> 7
      [] f = "add" -> 8 [] f = "bomInit" -> 9 [] OTHER -> 10

Labels ==
    <<L_doc, L_pep8, L_init, L_create, L_update, L_search, L_take, L_add,
      L_bom_init, L_bom_avail>>
MaxPoints == <<1, 2, 3, 3, 3, 3, 2, 2, 2, 3>>

Complete(rs) ==
    /\ Len(rs) = Len(Labels)
    /\ \A i \in DOMAIN rs : rs[i][1] = Labels[i] /\ rs[i][3] = MaxPoints[i]

\* C1: with both types loaded, whichever candidate operation raises (the
\* Storage constructor and a missing _data attribute in test_init included),
\* run_all_tests never propagates the exception, scores the faulting
\* scenario 0 and returns all 10 triples.
C1_FaultsNeverPropagate ==
    (module.Storage /\ module.BOM) =>
        /\ exc = "none"
        /\ pc # "raised"
        /\ Returned =>
             /\ Complete(results)
             /\ \A f \in BehaviourFields : cand[f] = "raises" => Earned(EntryOf(f)) = 0
             /\ cand["init"] = "no_data" => Earned(EntryOf("init")) = 0

\* C2: for each combination of Storage and BOM present or absent,
\* run_all_tests finishes without raising and returns all 10 triples; the
\* scenarios of a missing type score 0; with only BOM missing the six
\* Storage scenarios are still run.
C2_MissingTypesDegrade ==
    /\ pc # "raised"
    /\ Returned =>
         /\ Complete(results)
         /\ ~module.Storage => \A i \in 3..8 : Earned(i) = 0
         /\ ~module.BOM => \A i \in 9..10 : Earned(i) = 0
         /\ (module.Storage /\ ~module.BOM) =>
                \A n \in {"test_init", "test_create", "test_update", "test_search",
                          "test_take", "test_add"} : Invoked(n)

\* C3: once created, the temporary directory is removed on every path that
\* leaves run_all_tests, the exception path included, and no scenario runs
\* before it exists or after it is removed.
C3_TempDirScoped ==
    /\ [](Left => temp_dir = "removed")
    /\ [][/\ ran' # ran => (temp_dir = "exists" /\ temp_dir' = "exists")
          /\ temp_dir = "removed" => temp_dir' = "removed"]_vars

\* the run is left by the exception of test_init, and the directory is gone
C3_Witness == pc = "raised" /\ exc # "none" /\ temp_dir = "removed" /\ Invoked("test_init")

\* C4: a Storage whose update merges every given attribute (count included),
\* leaves the other fields alone and raises KeyError for an unknown part
\* number earns the full 3 points of test_update.
C4_ConformingUpdateEarnsFull ==
    (/\ Invoked("test_update")
     /\ cand["create"] = "ref" /\ cand["updMerge"] = "ref" /\ cand["updUnknown"] = "ref")
        => Earned(EntryOf("updMerge")) = 3

UpdateChecksPassed(inst) ==
    /\ PyEq(GetGet(inst.data, "UPDATETEST-001", "package"), S("SOT-23-5"))
    /\ PyEq(GetGet(inst.data, "UPDATETEST-001", "count"), S("20"))

\* what update on the unknown part number does on the shared instance
UnknownKeyOutcome == Update(cand, s, "XYZ_NOT_EXIST", ("value" :> S("fail"))).exc

\* C5: test_update earns its 3 points only if update on the unknown part
\* number raises KeyError and the merge checks before it passed; if that call
\* returns normally or raises anything else the scenario scores 0.
C5_CreditOnlyForKeyError ==
    pc = "search" =>
        /\ Earned(5) \in {0, 3}
        /\ Earned(5) = 3 => (IsKeyError(UnknownKeyOutcome) /\ UpdateChecksPassed(s))
        /\ ~IsKeyError(UnknownKeyOutcome) => Earned(5) = 0

\* the merge checks passed, the unknown-key call raised something else: 0
C5_Witness ==
    /\ pc = "search"
    /\ UpdateChecksPassed(s)
    /\ UnknownKeyOutcome = "ValueError"
    /\ Earned(5) = 0

\* C6: in the harness's order on the shared instance, a Storage with the
\* specified create, take and add semantics earns the full 2 points of
\* test_take and the full 2 points of test_add.
C6_TakeAddLiteralsMatch ==
    (cand["create"] = "ref" /\ cand["take"] = "ref" /\ cand["add"] = "ref") =>
        /\ Invoked("test_take") => Earned(7) = 2
        /\ Invoked("test_add") => Earned(8) = 2

\* both scenarios ran against conforming take and add, after a failed update
C6_Witness ==
    /\ pc = "bom"
    /\ cand["create"] = "ref" /\ cand["take"] = "ref" /\ cand["add"] = "ref"
    /\ Earned(5) = 0 /\ Earned(7) = 2 /\ Earned(8) = 2
    /\ IntOf(s.data["TAKETEST-002"]["count"]) = 0 - 35
    /\ PyEq(s.data["ADDTEST-001"]["count"], S("135"))

\* every required operation is defined by the candidate and documented
AllRequiredDocumented ==
    /\ storage_available
    /\ \A m \in Range(StorageMethods) : DocStatus(cand, "Storage", m) = "doc"
    /\ bom_available => \A m \in Range(BomMethods) : DocStatus(cand, "BOM", m) = "doc"

\* C7: check_docstring returns 1 exactly when every required operation
\* (construction, create, update, search, take, add of Storage and, when BOM
\* is available, construction and availability of BOM) is present and
\* documented, and 0 otherwise.
C7_DocstringAllOrNothing ==
    Len(results) >= 1 =>
        /\ Earned(1) \in {0, 1}
        /\ Earned(1) = 1 <=> AllRequiredDocumented

\* C8: the reported total is the sum of the earned points, the reported
\* maximum is 24, and the verdict is "passed" exactly when 5*total >= 2*max,
\* that is total >= 10.
C8_TotalAndVerdict ==
    pc = "done" =>
        /\ report.total_score =
             Earned(1) + Earned(2) + Earned(3) + Earned(4) + Earned(5)
               + Earned(6) + Earned(7) + Earned(8) + Earned(9) + Earned(10)
        /\ report.max_score = 24
        /\ report.verdict \in {"passed", "failed"}
        /\ report.verdict = "passed" <=> 5 * report.total_score >= 2 * report.max_score
        /\ report.verdict = "passed" <=> report.total_score >= 10

\* the boundary: exactly 10 of 24 passes
C8_Witness == pc = "done" /\ report.total_score = 10 /\ report.verdict = "passed"

StorageScenarios ==
    <<"test_init", "test_create", "test_update", "test_search", "test_take", "test_add">>

IsStorageScenario(e) == e[1] \in Range(StorageScenarios)

\* C9: when Storage is available and test_init returns, the six Storage
\* scenarios are invoked once each, in order, on the instance test_init
\* built, whatever the earlier scores; their triples follow the two audit
\* entries in the same order.
C9_OnceEachInOrder ==
    LET log == SelectSeq(ran, IsStorageScenario)
        whole == Len(log) = Len(StorageScenarios)
    IN  /\ Len(log) <= Len(StorageScenarios)
        /\ \A i \in DOMAIN log : log[i][1] = StorageScenarios[i]
        /\ (storage_available /\ exc = "none" /\ Len(log) >= 1) =>
              /\ \A i \in DOMAIN log : log[i][2] = 1
              /\ IF whole THEN Len(results) >= 2 + Len(log)
                           ELSE Len(results) = 2 + Len(log)
              /\ \A i \in DOMAIN log : results[2 + i][1] = Labels[2 + i]
        /\ (storage_available /\ exc = "none"
               /\ pc \in {"bom", "bom_avail", "finally", "returned", "done"}) => whole

\* the battery ran to its end although create and update scored 0
C9_Witness ==
    /\ pc = "done"
    /\ storage_available
    /\ Earned(4) = 0 /\ Earned(5) = 0 /\ Earned(8) = 2
    /\ Len(SelectSeq(ran, IsStorageScenario)) = 6

\* C10: BOM is constructed only when both types are available, and
\* BOM.availability is invoked only when test_bom_init returned an instance
\* with its 2 points; otherwise the availability entry is 0/3, so it never
\* earns 3 while BOM construction earned 0.
C10_BomGated ==
    /\ bom_made > 0 => (bom_available /\ storage_available)
    /\ Invoked("test_bom_init") <=> bom_made = 1
    /\ Invoked("test_bom_availability") =>
          (Len(results) >= 9 /\ Earned(9) = 2 /\ ~b.none)
    /\ Len(results) = 10 =>
          /\ ~Invoked("test_bom_availability") => Earned(10) = 0
          /\ ~(Earned(10) = 3 /\ Earned(9) = 0)
    /\ (Returned /\ module.BOM /\ ~module.Storage) =>
          /\ bom_made = 0
          /\ results[9] = <<L_bom_init, 0, 2>>
          /\ results[10] = <<L_bom_avail, 0, 3>>

\* a candidate with BOM but without Storage: its BOM is never called
C10_Witness ==
    /\ pc = "done"
    /\ module.BOM /\ ~module.Storage
    /\ bom_made = 0
    /\ Earned(9) = 0 /\ Earned(10) = 0

====
